---- MODULE Spec2Model ----
(***************************************************************************)
(* mcc.py: the Lexer (get_token / tokenise) and the Parser (parse,         *)
(* get_directive, get_function) of the mcc front end, as main() runs them: *)
(* Lexer(path), then Parser(lexer) (which tokenises), then parse().        *)
(*                                                                         *)
(* A source text is a sequence of one-character strings.  Python indexes   *)
(* from 0 and TLA+ sequences from 1: text[i] in the code is L.text[i + 1]  *)
(* here.  A run ends by returning a Program, by sys.exit(1) (log.error:    *)
(* "SystemExit") or by an uncaught Python exception ("AttributeError",     *)
(* "TypeError").                                                           *)
(***************************************************************************)
EXTENDS Integers, Sequences, FiniteSets, TLC

VARIABLES
    lexer,    \* the Lexer object: text, cursor, offset, line, curr_char, next_char
    tokens,   \* tokenise()'s list, which Parser.__init__ stores as self.tokens
    token,    \* the Token the last get_token() call returned
    parser,   \* the Parser object: program, index
    pc,       \* "lex_tokens" | "tokenise" | "parse" | "returned" | "halt"
    fault,    \* how the run halted: kind, raising component, reported position
    printed   \* lex_tokens's list: what its own tokenise() call returned

vars == <<lexer, tokens, token, parser, pc, fault, printed>>

-----------------------------------------------------------------------------
(* Bounds of the model *)

\* Every source text of at most MaxLen characters over Alphabet is lexed.
MaxLen == 4

\* The characters the exhaustive sources are built from: whitespace, both
\* comment characters, a dot, punctuation, a digit, letters, the string
\* characters and a character that starts no token.
Alphabet == {" ", "\n", "/", "*", ".", ",", "@", "1", "f", "n", "\"", "\\", "#"}

-----------------------------------------------------------------------------
(* Characters *)

None == "None"

Whitespace == {" ", "\n", "\r", "\t"}

Digits == {"0", "1", "2", "3", "4", "5", "6", "7", "8", "9"}

UpperCase == {"A", "B", "C", "D", "E", "F", "G", "H", "I", "J", "K", "L", "M",
              "N", "O", "P", "Q", "R", "S", "T", "U", "V", "W", "X", "Y", "Z"}

LowerCase == {"a", "b", "c", "d", "e", "f", "g", "h", "i", "j", "k", "l", "m",
              "n", "o", "p", "q", "r", "s", "t", "u", "v", "w", "x", "y", "z"}

digit(char) == char \in Digits

upper_case(char) == char \in UpperCase

lower_case(char) == char \in LowerCase

alpha(char) == upper_case(char) \/ lower_case(char)

identifier_begin(char) == char = "_" \/ alpha(char)

identifier_end(char) == identifier_begin(char) \/ digit(char)

\* The single-character tokens of get_token's match, character to kind.
Punctuation ==
    [c \in {",", ":", ";", "@", "(", ")", "{", "}"} |->
        CASE c = "," -> "comma"
          [] c = ":" -> "colon"
          [] c = ";" -> "semi_colon"
          [] c = "@" -> "at"
          [] c = "(" -> "open_paren"
          [] c = ")" -> "close_paren"
          [] c = "{" -> "open_brace"
          [] c = "}" -> "close_brace"]

TokenKind == {"undefined", "eof", "identifier", "function", "_return",
              "integer", "string", "at", "dotdotdot", "comma", "colon",
              "semi_colon", "open_paren", "close_paren", "open_brace",
              "close_brace"}

Token(kind, begin, end, line, offset) ==
    [kind |-> kind, begin |-> begin, end |-> end, line |-> line, offset |-> offset]

\* Python's s[b:e] for 0 <= b and 0 <= e: the slice is clamped to the string.
Slice(s, b, e) == SubSeq(s, b + 1, IF e < Len(s) THEN e ELSE Len(s))

-----------------------------------------------------------------------------
(* Lexer *)

\* Lexer.range
range(L, index) == index < Len(L.text)

\* One iteration of Lexer.advance's loop.
advance1(L) ==
    [L EXCEPT !.curr_char = L.next_char,
              !.next_char = IF L.cursor + 2 < Len(L.text)
                            THEN L.text[L.cursor + 3]
                            ELSE None,
              !.cursor = L.cursor + 1]

RECURSIVE advance(_, _)
advance(L, n) == IF n = 0 THEN L ELSE advance(advance1(L), n - 1)

\* Lexer.__init__ on a file holding `text`.
NewLexer(text) ==
    advance([text |-> text, cursor |-> -2, offset |-> 0, line |-> 1,
             curr_char |-> None, next_char |-> None], 2)

\* Mutant of skip_whitespace: the character is accounted for but not consumed.
skip_whitespace_no_advance(L) ==
    IF L.curr_char = "\n"
    THEN [L EXCEPT !.line = L.line + 1, !.offset = L.cursor + 1]
    ELSE L

\* get_token, skipping pass, case (' ' | '\n' | '\r' | '\t', _).
skip_whitespace(L) ==
    advance(IF L.curr_char = "\n"
            THEN [L EXCEPT !.line = L.line + 1, !.offset = L.cursor + 1]
            ELSE L, 1)

\* Mutant of skip_line_comment: the loop does not stop at the newline.
RECURSIVE skip_line_comment_past_newline(_)
skip_line_comment_past_newline(L) ==
    IF range(L, L.cursor)
    THEN skip_line_comment_past_newline(advance(L, 1))
    ELSE L

\* get_token, skipping pass, case ('/', '/'): the inner while loop.
RECURSIVE skip_line_comment(_)
skip_line_comment(L) ==
    IF range(L, L.cursor) /\ L.curr_char # "\n"
    THEN skip_line_comment(advance(L, 1))
    ELSE L

\* get_token, skipping pass, case ('/', '*'): the inner loop's condition, as
\* tested after advance(2).  Its body calls self.get_char, which Lexer does
\* not define, so the first iteration raises AttributeError.
block_comment_loops(L) ==
    range(L, L.cursor + 1) /\ L.curr_char # "*" /\ L.next_char # "/"

\* The integer branch's loop.
RECURSIVE scan_integer(_)
scan_integer(L) ==
    IF range(L, L.cursor) /\ digit(L.curr_char)
    THEN scan_integer(advance(L, 1))
    ELSE L

\* The identifier branch's loop.
RECURSIVE scan_identifier(_)
scan_identifier(L) ==
    IF range(L, L.cursor + 1) /\ identifier_end(L.text[L.cursor + 2])
    THEN scan_identifier(advance(L, 1))
    ELSE L

\* Mutant of keyword_kind: a keyword is matched as a prefix of the lexeme.
keyword_kind_prefix(lexeme) ==
    CASE Slice(lexeme, 0, 2) = <<"f", "n">> -> "function"
      [] Slice(lexeme, 0, 6) = <<"r", "e", "t", "u", "r", "n">> -> "_return"
      [] OTHER -> "identifier"

\* The identifier branch's keyword match on text[begin:cursor+1].
keyword_kind(lexeme) ==
    CASE lexeme = <<"f", "n">> -> "function"
      [] lexeme = <<"r", "e", "t", "u", "r", "n">> -> "_return"
      [] OTHER -> "identifier"

\* The string branch's loop, entered after the opening quote.
RECURSIVE scan_string(_)
scan_string(L) ==
    IF range(L, L.cursor) /\ L.curr_char # "\""
    THEN scan_string(advance(IF L.curr_char = "\\" THEN advance(L, 1) ELSE L, 1))
    ELSE L

\* Mutant of tokenise_append: the eof token is appended like any other.
tokenise_append_eof(toks, t) == Append(toks, t)

\* tokenise's loop body: every token but eof is appended.
tokenise_append(toks, t) == IF t.kind # "eof" THEN Append(toks, t) ELSE toks

NoToken == Token("undefined", 0, 0, 1, 0)

NoFault == [kind |-> "none", by |-> "none", pos |-> <<>>]

NewParser == [program |-> [externs |-> <<>>, functions |-> <<>>, entry |-> <<>>],
              index |-> 0]

-----------------------------------------------------------------------------
(* Sources *)

\* 'fn return fnx returning fn'
KeywordSource ==
    <<"f", "n", " ", "r", "e", "t", "u", "r", "n", " ", "f", "n", "x", " ",
      "r", "e", "t", "u", "r", "n", "i", "n", "g", " ", "f", "n">>

\* 'a // comment\nb'
LineCommentSource ==
    <<"a", " ", "/", "/", " ", "c", "o", "m", "m", "e", "n", "t", "\n", "b">>

\* 'a /* x \n y */ b'
BlockCommentSource ==
    <<"a", " ", "/", "*", " ", "x", " ", "\n", " ", "y", " ", "*", "/", " ",
      "b">>

\* '@extern fn foo(): u32 { }'
ExternSource ==
    <<"@", "e", "x", "t", "e", "r", "n", " ", "f", "n", " ", "f", "o", "o",
      "(", ")", ":", " ", "u", "3", "2", " ", "{", " ", "}">>

\* '@entry fn foo(): u32 { }'
EntrySource ==
    <<"@", "e", "n", "t", "r", "y", " ", "f", "n", " ", "f", "o", "o", "(",
      ")", ":", " ", "u", "3", "2", " ", "{", " ", "}">>

\* '@bogus fn foo(): u32 {}'
BogusSource ==
    <<"@", "b", "o", "g", "u", "s", " ", "f", "n", " ", "f", "o", "o", "(",
      ")", ":", " ", "u", "3", "2", " ", "{", "}">>

\* 'fn foo(): u32 { }'
FunctionSource ==
    <<"f", "n", " ", "f", "o", "o", "(", ")", ":", " ", "u", "3", "2", " ",
      "{", " ", "}">>

\* 'fn f(): u8 {} fn g(): u8 {}'
TwoFunctionsSource ==
    <<"f", "n", " ", "f", "(", ")", ":", " ", "u", "8", " ", "{", "}", " ",
      "f", "n", " ", "g", "(", ")", ":", " ", "u", "8", " ", "{", "}">>

\* The sources the specification's examples name.
Examples == {KeywordSource, LineCommentSource, BlockCommentSource,
             ExternSource, EntrySource, BogusSource, FunctionSource,
             TwoFunctionsSource}

RECURSIVE Texts(_)
Texts(n) ==
    IF n = 0 THEN {<<>>}
    ELSE Texts(n - 1) \cup [1..n -> Alphabet]

\* Every text of at most MaxLen characters over Alphabet, and the examples.
Sources == Texts(MaxLen) \cup Examples

Init ==
    /\ lexer \in {NewLexer(s) : s \in Sources}
    /\ tokens = <<>>
    /\ token = NoToken
    /\ parser = NewParser
    /\ pc = "tokenise"
    /\ fault = NoFault
    /\ printed = <<>>

\* main() with its call lex_tokens(lexer) (line 393, commented out) restored:
\* the Lexer is first scanned by lex_tokens and then handed to the Parser.
InitReuse ==
    /\ lexer \in {NewLexer(s) : s \in Sources}
    /\ tokens = <<>>
    /\ token = NoToken
    /\ parser = NewParser
    /\ pc = "lex_tokens"
    /\ fault = NoFault
    /\ printed = <<>>

-----------------------------------------------------------------------------
(* Lexer.get_token, called by tokenise's loop.  The skipping pass takes one  *)
(* action per iteration of its while loop; the rest of get_token, and what   *)
(* tokenise does with the token it returns, is one action per branch.        *)

InRange == pc \in {"lex_tokens", "tokenise"} /\ range(lexer, lexer.cursor)

AtWhitespace == lexer.curr_char \in Whitespace

AtLineComment == lexer.curr_char = "/" /\ lexer.next_char = "/"

AtBlockComment == lexer.curr_char = "/" /\ lexer.next_char = "*"

\* The skipping loop has ended by `case _: break`.
AtToken == InRange /\ ~AtWhitespace /\ ~AtLineComment /\ ~AtBlockComment

\* The run ends in an exit or an uncaught exception.
Halt(kind, by, pos) ==
    /\ pc' = "halt"
    /\ fault' = [kind |-> kind, by |-> by, pos |-> pos]

SkipWhitespace ==
    /\ InRange
    /\ AtWhitespace
    /\ lexer' = skip_whitespace(lexer)
    /\ UNCHANGED <<printed, tokens, token, parser, pc, fault>>

SkipLineComment ==
    /\ InRange
    /\ AtLineComment
    /\ lexer' = skip_line_comment(lexer)
    /\ UNCHANGED <<printed, tokens, token, parser, pc, fault>>

\* advance(2); the loop (whose first iteration raises); advance(2).
SkipBlockComment ==
    /\ InRange
    /\ AtBlockComment
    /\ LET L == advance(lexer, 2)
       IN  IF block_comment_loops(L)
           THEN /\ lexer' = L
                /\ Halt("AttributeError", "Lexer", <<>>)
                /\ UNCHANGED <<printed, tokens, token, parser>>
           ELSE /\ lexer' = advance(L, 2)
                /\ UNCHANGED <<printed, tokens, token, parser, pc, fault>>

\* Mutant of Emit: get_token returns without its final advance(1).
Emit_without_advance(kind, L) ==
    LET t == Token(kind, lexer.cursor, L.cursor, L.line, L.offset)
    IN  /\ lexer' = L
        /\ token' = t
        /\ tokens' = tokenise_append(tokens, t)
        /\ UNCHANGED <<printed, parser, pc, fault>>

\* get_token's last two lines, and tokenise's loop body on the token returned.
Emit(kind, L) ==
    LET E == advance(L, 1)
        t == Token(kind, lexer.cursor, E.cursor, E.line, E.offset)
    IN  /\ lexer' = E
        /\ token' = t
        /\ tokens' = tokenise_append(tokens, t)
        /\ UNCHANGED <<printed, parser, pc, fault>>

\* Mutant of LexTokensEof: the next tokenise() call starts from a Lexer
\* rewound to the beginning of the text.
LexTokensEof_rewinds ==
    /\ pc = "lex_tokens"
    /\ ~range(lexer, lexer.cursor)
    /\ LET t == Token("eof", lexer.cursor, lexer.cursor, lexer.line, lexer.offset)
       IN  /\ token' = t
           /\ printed' = tokenise_append(tokens, t)
    /\ lexer' = NewLexer(lexer.text)
    /\ tokens' = <<>>
    /\ pc' = "tokenise"
    /\ UNCHANGED <<parser, fault>>

\* The early return at end of input inside lex_tokens's tokenise() call:
\* tokenise returns, lex_tokens prints the tokens, and Parser.__init__ calls
\* tokenise() on the same Lexer, which starts a new list and resets nothing.
LexTokensEof ==
    /\ pc = "lex_tokens"
    /\ ~range(lexer, lexer.cursor)
    /\ LET t == Token("eof", lexer.cursor, lexer.cursor, lexer.line, lexer.offset)
       IN  /\ token' = t
           /\ printed' = tokenise_append(tokens, t)
    /\ tokens' = <<>>
    /\ pc' = "tokenise"
    /\ UNCHANGED <<lexer, parser, fault>>

\* The early return at end of input; tokenise returns and Parser.__init__
\* completes.
GetTokenEof ==
    /\ pc = "tokenise"
    /\ ~range(lexer, lexer.cursor)
    /\ LET t == Token("eof", lexer.cursor, lexer.cursor, lexer.line, lexer.offset)
       IN  /\ token' = t
           /\ tokens' = tokenise_append(tokens, t)
    /\ parser' = NewParser
    /\ pc' = "parse"
    /\ UNCHANGED <<printed, lexer, fault>>

\* case ('.', '.'): next_char is text[cursor+1], so the inner test holds.
GetTokenDots ==
    /\ AtToken
    /\ lexer.curr_char = "." /\ lexer.next_char = "."
    /\ IF range(lexer, lexer.cursor + 1) /\ lexer.text[lexer.cursor + 2] = "."
       THEN Emit("dotdotdot", advance(lexer, 2))
       ELSE Emit("undefined", lexer)

IsDots == lexer.curr_char = "." /\ lexer.next_char = "."

GetTokenPunctuation ==
    /\ AtToken
    /\ lexer.curr_char \in DOMAIN Punctuation
    /\ Emit(Punctuation[lexer.curr_char], lexer)

\* case _ of the token match is reached.
AtDefault == AtToken /\ ~IsDots /\ lexer.curr_char \notin DOMAIN Punctuation

GetTokenInteger ==
    /\ AtDefault
    /\ digit(lexer.curr_char)
    /\ Emit("integer", scan_integer(lexer))

GetTokenIdentifier ==
    /\ AtDefault
    /\ ~digit(lexer.curr_char)
    /\ identifier_begin(lexer.curr_char)
    /\ LET L == scan_identifier(lexer)
       IN  Emit(keyword_kind(Slice(L.text, lexer.cursor, L.cursor + 1)), L)

GetTokenString ==
    /\ AtDefault
    /\ ~digit(lexer.curr_char)
    /\ ~identifier_begin(lexer.curr_char)
    /\ lexer.curr_char = "\""
    /\ Emit("string", scan_string(advance(lexer, 1)))

\* The else branch: the message's ord(self.next_char) raises TypeError when
\* next_char is None; otherwise Lexer.error exits, and its message (a plain
\* string, not an f-string) reports no position.
GetTokenInvalid ==
    /\ AtDefault
    /\ ~digit(lexer.curr_char)
    /\ ~identifier_begin(lexer.curr_char)
    /\ lexer.curr_char # "\""
    /\ IF lexer.next_char = None
       THEN Halt("TypeError", "Lexer", <<>>)
       ELSE Halt("SystemExit", "Lexer", <<>>)
    /\ UNCHANGED <<printed, lexer, tokens, token, parser>>

-----------------------------------------------------------------------------
(* Parser *)

\* Parser.range
parser_range(index) == index < Len(tokens)

\* The position Parser.error reports for a token (begin = True).
error_position(t) == <<t.line, t.begin - t.offset + 1>>

\* parse's loop has ended.
ParseReturn ==
    /\ pc = "parse"
    /\ ~parser_range(parser.index)
    /\ pc' = "returned"
    /\ UNCHANGED <<printed, lexer, tokens, token, parser, fault>>

\* case TokenKind.at: get_directive.  With no token after the '@' it reports
\* the last token and exits.  Otherwise `match token: case
\* TokenKind.indentifier` looks up an attribute TokenKind does not have and
\* raises AttributeError: the extern and entry handlers are never reached.
ParseDirective ==
    /\ pc = "parse"
    /\ parser_range(parser.index)
    /\ tokens[parser.index + 1].kind = "at"
    /\ IF ~parser_range(parser.index + 1)
       THEN Halt("SystemExit", "Parser", error_position(tokens[Len(tokens)]))
       ELSE Halt("AttributeError", "Parser", <<>>)
    /\ UNCHANGED <<printed, lexer, tokens, token, parser>>

\* Mutant of ParseFunction: get_function returns a definition, which parse
\* records, and the index parse tests is left where it was.
ParseFunction_returns ==
    /\ pc = "parse"
    /\ parser_range(parser.index)
    /\ tokens[parser.index + 1].kind = "function"
    /\ parser' = [parser EXCEPT !.program.functions = Append(@, parser.index)]
    /\ UNCHANGED <<printed, lexer, tokens, token, pc, fault>>

\* case TokenKind.function: get_function.  FuncDefExpr() calls its fields'
\* default_factory, the list [] itself, and raises TypeError before the
\* function reads a token.
ParseFunction ==
    /\ pc = "parse"
    /\ parser_range(parser.index)
    /\ tokens[parser.index + 1].kind = "function"
    /\ Halt("TypeError", "Parser", <<>>)
    /\ UNCHANGED <<printed, lexer, tokens, token, parser>>

\* case _: log.error(msg, token) passes the token as `sep` and exits; no
\* line and column are reported.
ParseOther ==
    /\ pc = "parse"
    /\ parser_range(parser.index)
    /\ tokens[parser.index + 1].kind \notin {"at", "function"}
    /\ Halt("SystemExit", "Parser", <<>>)
    /\ UNCHANGED <<printed, lexer, tokens, token, parser>>

-----------------------------------------------------------------------------

Next ==
    \/ SkipWhitespace
    \/ SkipLineComment
    \/ SkipBlockComment
    \/ GetTokenEof
    \/ GetTokenDots
    \/ GetTokenPunctuation
    \/ GetTokenInteger
    \/ GetTokenIdentifier
    \/ GetTokenString
    \/ GetTokenInvalid
    \/ ParseReturn
    \/ ParseDirective
    \/ ParseFunction
    \/ ParseOther

Spec == Init /\ [][Next]_vars

\* The run with lex_tokens(lexer) before Parser(lexer): the second tokenise()
\* call finds the Lexer as the first one left it.
NextReuse ==
    \/ SkipWhitespace
    \/ SkipLineComment
    \/ SkipBlockComment
    \/ LexTokensEof
    \/ GetTokenEof
    \/ GetTokenDots
    \/ GetTokenPunctuation
    \/ GetTokenInteger
    \/ GetTokenIdentifier
    \/ GetTokenString
    \/ GetTokenInvalid
    \/ ParseReturn

ReuseSpec == InitReuse /\ [][NextReuse]_vars

-----------------------------------------------------------------------------
(* Properties *)

text == lexer.text

\* tokenise has returned: the Parser holds the token sequence.
Lexed == pc \in {"parse", "returned"} \/ (pc = "halt" /\ fault.by = "Parser")

\* The run is over.
Finished == pc \in {"returned", "halt"}

\* The lexeme of a token: source[t.begin:t.end].
Lexeme(t) == Slice(text, t.begin, t.end)

Kinds == [i \in DOMAIN tokens |-> tokens[i].kind]

NewlinesIn(s) == Cardinality({k \in DOMAIN s : s[k] = "\n"})

IdentifierShaped(s) ==
    /\ s # <<>>
    /\ s[1] = "_" \/ s[1] \in UpperCase \cup LowerCase
    /\ \A k \in DOMAIN s : s[k] = "_" \/ s[k] \in UpperCase \cup LowerCase \cup Digits

\* C1: every token get_token emits with a kind other than eof has
\* 0 <= begin <= end <= length(source), also when it ends the source.
C1_TokenWithinSource ==
    \A i \in DOMAIN tokens :
        tokens[i].kind # "eof" =>
            /\ 0 <= tokens[i].begin
            /\ tokens[i].begin <= tokens[i].end
            /\ tokens[i].end <= Len(text)

MatchesRule(t) ==
    LET s == Lexeme(t)
    IN  /\ Len(s) = t.end - t.begin
        /\ CASE t.kind = "integer" ->
                   /\ s # <<>>
                   /\ \A k \in DOMAIN s : s[k] \in Digits
                   /\ t.end < Len(text) => text[t.end + 1] \notin Digits
             [] t.kind \in {"identifier", "function", "_return"} ->
                   IdentifierShaped(s)
             [] t.kind \in {Punctuation[c] : c \in DOMAIN Punctuation} ->
                   /\ Len(s) = 1
                   /\ s[1] \in DOMAIN Punctuation
                   /\ Punctuation[s[1]] = t.kind
             [] t.kind = "dotdotdot" -> s = <<".", ".", ".">>
             [] t.kind = "string" ->
                   /\ Len(s) >= 2
                   /\ s[1] = "\""
                   /\ s[Len(s)] = "\""
             [] OTHER -> FALSE

\* C3: the lexeme of every emitted token is exactly what its recognition rule
\* matches: an integer is a maximal run of digits and nothing else, an
\* identifier or keyword matches [A-Za-z_][A-Za-z0-9_]*, a punctuation token
\* is its character, dotdotdot is '...', a string starts and ends with '"'.
C3_LexemeRoundTrip == \A i \in DOMAIN tokens : MatchesRule(tokens[i])

\* C4: every emitted token's line is 1 plus the number of newlines in
\* source[0:token.begin].
C4_LineAccounting ==
    \A i \in DOMAIN tokens :
        tokens[i].line = 1 + NewlinesIn(Slice(text, 0, tokens[i].begin))

\* The kind the specification gives an identifier-shaped lexeme.
ExpectedKind(s) ==
    IF s = <<"f", "n">> THEN "function"
    ELSE IF s = <<"r", "e", "t", "u", "r", "n">> THEN "_return"
    ELSE "identifier"

\* C5: an emitted token whose lexeme is identifier-shaped has kind function
\* when the lexeme is exactly 'fn', _return when it is exactly 'return', and
\* identifier otherwise (a keyword as a proper prefix changes nothing),
\* wherever the lexeme sits in the source.
C5_KeywordPrecedence ==
    \A i \in DOMAIN tokens :
        IdentifierShaped(Lexeme(tokens[i])) =>
            tokens[i].kind = ExpectedKind(Lexeme(tokens[i]))

\* 'fn return fnx returning fn' is lexed: both keywords, both identifiers
\* with a keyword as proper prefix, and 'fn' as the last thing in the source.
C5_Witness ==
    /\ pc = "parse"
    /\ text = KeywordSource
    /\ Kinds = <<"function", "_return", "identifier", "identifier", "function">>
    /\ tokens[5].end = Len(text)

\* C6: a block comment runs to the first following '*/', contributes no
\* token, and the token after it is on the line of the '/*' plus the
\* newlines inside the comment: 'a /* x \n y */ b' lexes to exactly the two
\* tokens a and b, with b on line 2.
C6_BlockCommentTransparent ==
    (text = BlockCommentSource /\ pc # "tokenise") =>
        /\ Lexed
        /\ Len(tokens) = 2
        /\ Lexeme(tokens[1]) = <<"a">>
        /\ Lexeme(tokens[2]) = <<"b">>
        /\ tokens[2].line = 2

\* The index of the first newline at or after index c, or the length of the
\* source when there is none.
LineEnd(c) ==
    CHOOSE k \in c..Len(text) :
        /\ k = Len(text) \/ text[k + 1] = "\n"
        /\ \A j \in c..(k - 1) : text[j + 1] # "\n"

\* C7: a line comment runs from '//' up to but not including the next newline
\* (or to the end of input), contributes no token and leaves the line count
\* alone; 'a // comment\nb' lexes to exactly the two tokens a and b, with b
\* on line 2.
C7_LineCommentTransparent ==
    /\ [][(InRange /\ AtLineComment) =>
            /\ pc' = "tokenise"
            /\ lexer'.cursor = LineEnd(lexer.cursor)
            /\ lexer'.line = lexer.line
            /\ lexer'.offset = lexer.offset
            /\ tokens' = tokens]_vars
    /\ []((text = LineCommentSource /\ pc # "tokenise") =>
            /\ Lexed
            /\ tokens = <<Token("identifier", 0, 1, 1, 0),
                          Token("identifier", 13, 14, 2, 13)>>)

C7_Witness ==
    /\ pc = "parse"
    /\ text = LineCommentSource
    /\ Len(tokens) = 2
    /\ Lexeme(tokens[2]) = <<"b">>
    /\ tokens[2].line = 2

\* C8: '@extern fn foo(): u32 { }' parses to a Program whose externs holds
\* exactly the definition of foo, with functions and entry empty; with
\* '@entry' the definition is in entry and the other two lists are empty.
C8_DirectiveDispatch ==
    /\ (text = ExternSource /\ Finished) =>
            /\ pc = "returned"
            /\ Len(parser.program.externs) = 1
            /\ parser.program.externs[1].name = <<"f", "o", "o">>
            /\ parser.program.functions = <<>>
            /\ parser.program.entry = <<>>
    /\ (text = EntrySource /\ Finished) =>
            /\ pc = "returned"
            /\ Len(parser.program.entry) = 1
            /\ parser.program.entry[1].name = <<"f", "o", "o">>
            /\ parser.program.functions = <<>>
            /\ parser.program.externs = <<>>

\* C9: '@bogus fn foo(): u32 {}' ends in a parse fault that reports the line
\* and column of the token bogus, and returns no Program.
C9_FaultAtDirectiveName ==
    (text = BogusSource /\ Finished) =>
        /\ pc = "halt"
        /\ fault.kind = "SystemExit"
        /\ fault.by = "Parser"
        /\ fault.pos = error_position(tokens[2])

\* C10: only three consecutive dots make a dotdotdot token: none is emitted
\* for two dots that no third dot follows, and the character after two dots
\* is not swallowed into the token.
C10_ThreeDotsOnly ==
    \A i \in DOMAIN tokens :
        tokens[i].kind = "dotdotdot" =>
            /\ tokens[i].end = tokens[i].begin + 3
            /\ tokens[i].end <= Len(text)
            /\ \A k \in (tokens[i].begin + 1)..tokens[i].end : text[k] = "."

\* C11: an unterminated string literal is a lexer fault, so no string token
\* is emitted for it: every string token emitted ends, inside the source, on
\* the '"' that closes it.
C11_UnterminatedStringFaults ==
    \A i \in DOMAIN tokens :
        tokens[i].kind = "string" =>
            /\ tokens[i].end <= Len(text)
            /\ tokens[i].end >= tokens[i].begin + 2
            /\ text[tokens[i].end] = "\""

\* No '*/' lies at or after index c of the source.
NoCommentEnd(c) ==
    \A k \in c..(Len(text) - 2) : ~(text[k + 1] = "*" /\ text[k + 2] = "/")

\* C12: when the skipping pass opens a '/*' that no '*/' closes before the
\* end of input, tokenisation aborts instead of going on to the eof token.
C12_UnterminatedCommentFaults ==
    [][(InRange /\ AtBlockComment /\ NoCommentEnd(lexer.cursor + 2)) =>
            /\ pc' = "halt"
            /\ fault'.by = "Lexer"]_vars

\* C13: a source of n undirected function definitions parses to a Program
\* whose functions holds the n definitions in source order, with externs and
\* entry empty (here n = 1 and n = 2).
C13_BareFunctions ==
    /\ (text = FunctionSource /\ Finished) =>
            /\ pc = "returned"
            /\ Len(parser.program.functions) = 1
            /\ parser.program.functions[1].name = <<"f", "o", "o">>
            /\ parser.program.externs = <<>>
            /\ parser.program.entry = <<>>
    /\ (text = TwoFunctionsSource /\ Finished) =>
            /\ pc = "returned"
            /\ Len(parser.program.functions) = 2
            /\ parser.program.functions[1].name = <<"f">>
            /\ parser.program.functions[2].name = <<"g">>
            /\ parser.program.externs = <<>>
            /\ parser.program.entry = <<>>

\* After skipping, the current character starts none of the tokens.
AtInvalidCharacter ==
    /\ AtToken
    /\ ~(lexer.curr_char = "." /\ lexer.next_char = ".")
    /\ lexer.curr_char \notin {",", ":", ";", "@", "(", ")", "{", "}", "_", "\""}
    /\ lexer.curr_char \notin Digits \cup UpperCase \cup LowerCase

\* C14: a character that starts no token ends tokenisation in the lexer's
\* invalid-character fault (Lexer.error: a diagnostic and exit status 1), and
\* no token sequence is returned, wherever the character sits.
C14_InvalidCharacterFaults ==
    [][AtInvalidCharacter =>
            /\ pc' = "halt"
            /\ fault' = [kind |-> "SystemExit", by |-> "Lexer", pos |-> <<>>]
            /\ tokens' = tokens]_vars

\* C15: an eof token returned by get_token has begin = end = length(source),
\* whatever was scanned before it.
C15_EofAtEndOfSource ==
    token.kind = "eof" =>
        /\ token.begin = Len(text)
        /\ token.end = Len(text)

\* The index after the last newline before index b, or 0 with none before it.
LineStart(b) ==
    IF \E k \in 1..b : text[k] = "\n"
    THEN CHOOSE k \in 1..b : text[k] = "\n" /\ \A j \in (k + 1)..b : text[j] # "\n"
    ELSE 0

\* C16: every emitted token's offset is the start of the line that
\* token.begin lies on: 0 when no newline precedes it, else the index after
\* the last newline before it.
C16_ColumnBasis ==
    \A i \in DOMAIN tokens : tokens[i].offset = LineStart(tokens[i].begin)

\* C17: parse() terminates on every token sequence: an iteration of its loop
\* either increases the index the loop tests (which never passes the length
\* of the sequence) or ends the run (an exit or an uncaught exception), so no
\* token is looked at twice, and with the index past the sequence parse
\* returns; on an empty sequence it returns a Program whose three lists are
\* empty.
C17_ParseTerminates ==
    /\ [][(pc = "parse" /\ parser_range(parser.index)) =>
            \/ pc' = "halt"
            \/ /\ pc' = "parse"
               /\ parser'.index > parser.index
               /\ parser'.index <= Len(tokens)]_vars
    /\ [][(pc = "parse" /\ ~parser_range(parser.index)) => pc' = "returned"]_vars
    /\ [][(pc = "parse" /\ tokens = <<>>) =>
            /\ pc' = "returned"
            /\ parser'.program = [externs |-> <<>>, functions |-> <<>>,
                                  entry |-> <<>>]]_vars

\* parse has ended a run on a sequence of several tokens.
C17_Witness ==
    /\ pc = "halt"
    /\ fault.by = "Parser"
    /\ Len(tokens) >= 2

\* C18: tokenise() terminates on every source: every iteration of the
\* skipping loop and every return of a token other than eof starts with the
\* cursor inside the source and leaves it strictly greater, so after at most
\* length(source) such steps the run has ended in a fault or the cursor is
\* outside the source, where get_token returns eof and tokenise returns.
C18_TokeniseTerminates ==
    /\ [][pc = "tokenise" =>
            \/ pc' # "tokenise"
            \/ /\ lexer.cursor < Len(text)
               /\ lexer'.cursor > lexer.cursor]_vars
    /\ [][(pc = "tokenise" /\ token' # token /\ token'.kind # "eof") =>
            /\ lexer.cursor <= token'.begin
            /\ token'.begin < lexer'.cursor]_vars
    /\ [][(pc = "tokenise" /\ ~range(lexer, lexer.cursor)) =>
            /\ pc' = "parse"
            /\ token'.kind = "eof"]_vars

\* tokenise has returned after skipping and after returning several tokens.
C18_Witness ==
    /\ pc = "parse"
    /\ Len(tokens) >= 2
    /\ tokens[2].begin > tokens[1].end

\* The tokens get_token has returned so far, in order of return.
Returned == IF token.kind = "eof" THEN Append(tokens, token) ELSE tokens

\* C19: two tokens t1, t2 that successive get_token calls return satisfy
\* t1.begin < t1.end <= t2.begin and t2.line >= t1.line.
C19_TokensInSourceOrder ==
    \A i \in 1..(Len(Returned) - 1) :
        /\ Returned[i].begin < Returned[i].end
        /\ Returned[i].end <= Returned[i + 1].begin
        /\ Returned[i + 1].line >= Returned[i].line

\* Three calls have returned two tokens on different lines and eof.
C19_Witness ==
    /\ Len(Returned) = 3
    /\ Returned[3].kind = "eof"
    /\ Returned[2].line > Returned[1].line

\* C20: once a tokenise() call has returned, the cursor is at or past the end
\* of the source and is never moved back, so a later tokenise() call on the
\* same Lexer (the Parser's, after lex_tokens) returns an empty sequence and
\* not the tokens again.
C20_TokeniseConsumesLexer ==
    /\ [](pc \in {"tokenise", "parse", "returned"} =>
            lexer.cursor >= Len(text))
    /\ [][lexer'.cursor >= lexer.cursor]_vars
    /\ [](pc \in {"parse", "returned"} => tokens = <<>>)

\* lex_tokens got several tokens and the Parser, on the same Lexer, none.
C20_Witness ==
    /\ pc = "parse"
    /\ Len(printed) >= 2
    /\ tokens = <<>>

====
